---- MODULE Spec2Model ----
(***************************************************************************)
(* Model of src/src/main.py: the validated Producto entity and the         *)
(* Inventario store with its three collections (productos, ids_productos,  *)
(* indice_nombres) and its JSON persistence.                               *)
(*                                                                         *)
(* Python strings are sequences of characters; characters are one-token    *)
(* strings.  "Idot" is U+0130 (capital I with dot above), "dot" is U+0307  *)
(* (combining dot above).  Python values of dynamic type are records       *)
(* [t, n, s]: t is the type tag, n the numeric value, s the string value.  *)
(* A Python dict is a sequence of entries in insertion order.              *)
(***************************************************************************)
EXTENDS Integers, Sequences, FiniteSets, TLC

VARIABLES productos, ids_productos, indice_nombres, archivo, guardado, ult

vars == <<productos, ids_productos, indice_nombres, archivo, guardado, ult>>

coleccion == <<productos, ids_productos, indice_nombres>>

(***************************************************************************)
(* Bounds                                                                  *)
(***************************************************************************)
MaxCantidad == 1
MaxPrecio == 1
MaxFecha == 2

(***************************************************************************)
(* Python values                                                           *)
(***************************************************************************)
PyStr(s) == [t |-> "str", n |-> 0, s |-> s]
PyInt(n) == [t |-> "int", n |-> n, s |-> <<>>]
PyFloat(n) == [t |-> "float", n |-> n, s |-> <<>>]
NaN == [t |-> "nan", n |-> 0, s |-> <<>>]
Falta == [t |-> "missing", n |-> 0, s |-> <<>>]

\* the string strftime gives for the clock reading n
Marca(n) == [t |-> "str", n |-> n, s |-> <<"t">>]

\* float comparison: every comparison with nan is false
Menor(a, b) == a.t # "nan" /\ b.t # "nan" /\ a.n < b.n
Mayor(a, b) == Menor(b, a)

\* float arithmetic on the modelled values: nan is absorbing
Suma(a, b) ==
    IF a.t = "nan" \/ b.t = "nan" THEN NaN
    ELSE IF a.t = "float" \/ b.t = "float" THEN PyFloat(a.n + b.n)
    ELSE PyInt(a.n + b.n)

Mult(a, b) ==
    IF a.t = "nan" \/ b.t = "nan" THEN NaN
    ELSE IF a.t = "float" \/ b.t = "float" THEN PyFloat(a.n * b.n)
    ELSE PyInt(a.n * b.n)

(***************************************************************************)
(* str methods: strip, upper, lower, title, `in`                           *)
(***************************************************************************)
IsSpace(c) == c = " "

IsCased(c) == c \in {"a", "b", "i", "A", "B", "I", "Idot"}

UpperFull(c) ==
    CASE c = "a" -> <<"A">>
      [] c = "b" -> <<"B">>
      [] c = "i" -> <<"I">>
      [] OTHER -> <<c>>

LowerFull(c) ==
    CASE c = "A" -> <<"a">>
      [] c = "B" -> <<"b">>
      [] c = "I" -> <<"i">>
      [] c = "Idot" -> <<"i", "dot">>
      [] OTHER -> <<c>>

TitleFull(c) == UpperFull(c)

RECURSIVE LStrip(_)
LStrip(s) == IF s # <<>> /\ IsSpace(Head(s)) THEN LStrip(Tail(s)) ELSE s

RECURSIVE RStrip(_)
RStrip(s) ==
    IF s # <<>> /\ IsSpace(s[Len(s)]) THEN RStrip(SubSeq(s, 1, Len(s) - 1)) ELSE s

strip(s) == RStrip(LStrip(s))

RECURSIVE upper(_)
upper(s) == IF s = <<>> THEN <<>> ELSE UpperFull(Head(s)) \o upper(Tail(s))

RECURSIVE lower(_)
lower(s) == IF s = <<>> THEN <<>> ELSE LowerFull(Head(s)) \o lower(Tail(s))

\* str.title(): a character after a cased character is lowercased, any other
\* character is titlecased
RECURSIVE TitleDesde(_, _)
TitleDesde(s, previous_is_cased) ==
    IF s = <<>> THEN <<>>
    ELSE (IF previous_is_cased THEN LowerFull(Head(s)) ELSE TitleFull(Head(s)))
            \o TitleDesde(Tail(s), IsCased(Head(s)))

title(s) == TitleDesde(s, FALSE)

\* a in b, for strings
Contiene(b, a) ==
    \E i \in 0..(Len(b) - Len(a)) : SubSeq(b, i + 1, i + Len(a)) = a

(***************************************************************************)
(* Producto                                                                *)
(***************************************************************************)
_validar_id_ok(v) == v.t = "str" /\ strip(v.s) # <<>>
_validar_id(v) == upper(strip(v.s))

_validar_nombre_ok(v) == v.t = "str" /\ strip(v.s) # <<>>
_validar_nombre(v) == title(strip(v.s))

\* mutant: the sign of the quantity is not checked
_validar_cantidad_ok_sin_signo(v) == v.t = "int"

_validar_cantidad_ok(v) == v.t = "int" /\ ~(v.n < 0)
_validar_cantidad(v) == v

_validar_precio_ok(v) == v.t \in {"int", "float", "nan"} /\ ~Menor(v, PyFloat(0))
_validar_precio(v) == IF v.t = "nan" THEN NaN ELSE PyFloat(v.n)

\* Producto.__init__ raises ValueError unless the four fields validate
ProductoValido(id, nombre, cantidad, precio) ==
    /\ _validar_id_ok(id)
    /\ _validar_nombre_ok(nombre)
    /\ _validar_cantidad_ok(cantidad)
    /\ _validar_precio_ok(precio)

Producto(id, nombre, cantidad, precio, ahora) ==
    [id_producto |-> _validar_id(id),
     nombre |-> _validar_nombre(nombre),
     cantidad |-> _validar_cantidad(cantidad),
     precio |-> _validar_precio(precio),
     fecha_creacion |-> Marca(ahora)]

calcular_valor_total(p) == Mult(p.cantidad, p.precio)

SinProducto ==
    [id_producto |-> <<>>, nombre |-> <<>>, cantidad |-> PyInt(0),
     precio |-> PyFloat(0), fecha_creacion |-> Marca(0)]

(***************************************************************************)
(* Inventario: the collections                                             *)
(***************************************************************************)
_normalizar_nombre(nombre) == strip(lower(nombre))

\* keys of the dict productos
Claves(d) == {d[i].id_producto : i \in 1..Len(d)}

\* position of a key in a dict, 0 when absent
Pos(d, id) == IF \E i \in 1..Len(d) : d[i].id_producto = id
              THEN CHOOSE i \in 1..Len(d) : d[i].id_producto = id
              ELSE 0

\* d[producto.id_producto] = producto: a new key goes last, an existing key
\* keeps its position
DictSet(d, p) ==
    IF Pos(d, p.id_producto) = 0 THEN Append(d, p)
    ELSE [d EXCEPT ![Pos(d, p.id_producto)] = p]

\* del d[id]
DictDel(d, id) ==
    SubSeq(d, 1, Pos(d, id) - 1) \o SubSeq(d, Pos(d, id) + 1, Len(d))

\* the same two operations on indice_nombres, whose entries are [k, ids]
PosK(ix, k) == IF \E i \in 1..Len(ix) : ix[i].k = k
               THEN CHOOSE i \in 1..Len(ix) : ix[i].k = k
               ELSE 0

EnLista(l, x) == \E i \in 1..Len(l) : l[i] = x

\* list.remove(x): removes the first occurrence
ListRemove(l, x) ==
    LET i == CHOOSE j \in 1..Len(l) : l[j] = x /\ \A h \in 1..(j - 1) : l[h] # x
    IN SubSeq(l, 1, i - 1) \o SubSeq(l, i + 1, Len(l))

_actualizar_indice_nombres(ix, p) ==
    LET nombre_norm == _normalizar_nombre(p.nombre)
        ix1 == IF PosK(ix, nombre_norm) = 0
               THEN Append(ix, [k |-> nombre_norm, ids |-> <<>>])
               ELSE ix
        i == PosK(ix1, nombre_norm)
    IN IF EnLista(ix1[i].ids, p.id_producto) THEN ix1
       ELSE [ix1 EXCEPT ![i].ids = Append(@, p.id_producto)]

\* mutant: a bucket that becomes empty is kept
_remover_de_indice_nombres_deja_vacio(ix, p) ==
    LET nombre_norm == _normalizar_nombre(p.nombre)
        i == PosK(ix, nombre_norm)
    IN IF i = 0 THEN ix
       ELSE IF EnLista(ix[i].ids, p.id_producto)
       THEN [ix EXCEPT ![i].ids = ListRemove(@, p.id_producto)]
       ELSE ix

_remover_de_indice_nombres(ix, p) ==
    LET nombre_norm == _normalizar_nombre(p.nombre)
        i == PosK(ix, nombre_norm)
    IN IF i = 0 THEN ix
       ELSE LET l == IF EnLista(ix[i].ids, p.id_producto)
                     THEN ListRemove(ix[i].ids, p.id_producto)
                     ELSE ix[i].ids
            IN IF l = <<>>
               THEN SubSeq(ix, 1, i - 1) \o SubSeq(ix, i + 1, Len(ix))
               ELSE [ix EXCEPT ![i].ids = l]

(***************************************************************************)
(* Inputs of the calls                                                     *)
(***************************************************************************)
\* id strings as typed by the caller
IdsEntrada == {<<"a">>, <<" ", "b">>}

NombresEntrada == {<<" ", "a", "b", " ">>, <<"B">>}

\* int(input()) and float(input()) of the console, and what else a caller of
\* the update methods may pass
CantidadesValidas == {PyInt(n) : n \in 0..MaxCantidad}

CantidadesEntrada == CantidadesValidas \cup {PyInt(-1), PyFloat(1)}

PreciosValidos == {PyFloat(0), NaN} \cup {PyInt(n) : n \in 1..MaxPrecio}

PreciosEntrada == PreciosValidos \cup {PyFloat(-1), PyStr(<<"a">>)}

\* constructor arguments that Producto.__init__ rejects, one bad field each
EntradasInvalidas ==
    {<<PyStr(<<" ">>), PyStr(<<"B">>), PyInt(0), PyFloat(0)>>,
     <<PyInt(1), PyStr(<<"B">>), PyInt(0), PyFloat(0)>>,
     <<PyStr(<<"a">>), PyStr(<<" ">>), PyInt(0), PyFloat(0)>>,
     <<PyStr(<<"a">>), PyStr(<<"B">>), PyInt(-1), PyFloat(0)>>,
     <<PyStr(<<"a">>), PyStr(<<"B">>), PyFloat(1), PyFloat(0)>>,
     <<PyStr(<<"a">>), PyStr(<<"B">>), PyInt(0), PyFloat(-1)>>,
     <<PyStr(<<"a">>), PyStr(<<"B">>), PyInt(0), PyStr(<<"a">>)>>}

\* datetime.now() formatted to the second
Fechas == 1..MaxFecha

\* names whose title-cased form holds U+0130
NombresUnicode == {<<"B">>, <<"a", "Idot", "b">>}

ConsultasEntrada == {<<"a">>, <<"B", " ">>, <<"i">>, <<>>}

(***************************************************************************)
(* The record of the last call: operation, arguments, results              *)
(***************************************************************************)
Ninguno == [hay |-> FALSE, p |-> SinProducto]
Alguno(p) == [hay |-> TRUE, p |-> p]

SinEstadisticas ==
    [total_productos |-> 0, valor_total_inventario |-> PyInt(0),
     producto_mas_caro |-> Ninguno, producto_mas_barato |-> Ninguno,
     stock_total |-> PyInt(0)]

Llamada(op, id, val, nombre, ok) ==
    [op |-> op, id |-> id, val |-> val, nombre |-> nombre, ok |-> ok,
     res |-> <<>>, est |-> SinEstadisticas]

(***************************************************************************)
(* The inventory file.  estado is what open() and json.load() meet:        *)
(*   "ausente"   no file at the path                                       *)
(*   "ilegible"  open() fails or the text is not JSON                      *)
(*   "noobjeto"  the JSON document is not an object                        *)
(*   "nolista"   its member 'productos' is a number                        *)
(*   "lista"     its member 'productos' is the list registros              *)
(* A record of the list is [dicc, id_producto, nombre, cantidad, precio,   *)
(* fecha_creacion]: dicc tells whether it is a JSON object, the other      *)
(* fields are its members as JSON tokens (JFalta for a missing member).    *)
(***************************************************************************)
ArchivoAusente == [estado |-> "ausente", registros |-> <<>>]
ArchivoIlegible == [estado |-> "ilegible", registros |-> <<>>]
ArchivoNoObjeto == [estado |-> "noobjeto", registros |-> <<>>]
ArchivoNoLista == [estado |-> "nolista", registros |-> <<>>]
ArchivoLista(registros) == [estado |-> "lista", registros |-> registros]

JFalta == [j |-> "falta", n |-> 0, s |-> <<>>]

\* json.dump of a value: a string, an integer literal, a literal with a
\* fraction, or the token NaN
JsonDump(v) ==
    CASE v.t = "str" -> [j |-> "string", n |-> v.n, s |-> v.s]
      [] v.t = "int" -> [j |-> "entero", n |-> v.n, s |-> <<>>]
      [] v.t = "float" -> [j |-> "decimal", n |-> v.n, s |-> <<>>]
      [] v.t = "nan" -> [j |-> "NaN", n |-> 0, s |-> <<>>]
      [] OTHER -> JFalta

\* json.load of a token
JsonLoad(x) ==
    CASE x.j = "string" -> [t |-> "str", n |-> x.n, s |-> x.s]
      [] x.j = "entero" -> PyInt(x.n)
      [] x.j = "decimal" -> PyFloat(x.n)
      [] x.j = "NaN" -> NaN
      [] OTHER -> Falta

\* Producto.to_dict
to_dict(p) ==
    [dicc |-> TRUE,
     id_producto |-> PyStr(p.id_producto),
     nombre |-> PyStr(p.nombre),
     cantidad |-> p.cantidad,
     precio |-> p.precio,
     fecha_creacion |-> p.fecha_creacion]

json_dump(d) ==
    [dicc |-> d.dicc,
     id_producto |-> JsonDump(d.id_producto),
     nombre |-> JsonDump(d.nombre),
     cantidad |-> JsonDump(d.cantidad),
     precio |-> JsonDump(d.precio),
     fecha_creacion |-> JsonDump(d.fecha_creacion)]

json_load(r) ==
    [dicc |-> r.dicc,
     id_producto |-> JsonLoad(r.id_producto),
     nombre |-> JsonLoad(r.nombre),
     cantidad |-> JsonLoad(r.cantidad),
     precio |-> JsonLoad(r.precio),
     fecha_creacion |-> JsonLoad(r.fecha_creacion)]

\* Producto.from_dict returns: the record is a dict, data[...] finds the four
\* keys and the constructor accepts the values
from_dict_ok(data) ==
    /\ data.dicc
    /\ data.id_producto # Falta /\ data.nombre # Falta
    /\ data.cantidad # Falta /\ data.precio # Falta
    /\ ProductoValido(data.id_producto, data.nombre, data.cantidad, data.precio)

\* Producto.from_dict
from_dict(data, ahora) ==
    [Producto(data.id_producto, data.nombre, data.cantidad, data.precio, ahora)
        EXCEPT !.fecha_creacion =
            IF data.fecha_creacion = Falta THEN @ ELSE data.fecha_creacion]

NoGuardado == [hay |-> FALSE, productos |-> <<>>]

\* file contents an editor or another program may leave at the path
JS(s) == [j |-> "string", n |-> 0, s |-> s]
JE(n) == [j |-> "entero", n |-> n, s |-> <<>>]
JD(n) == [j |-> "decimal", n |-> n, s |-> <<>>]

Reg(id, nombre, cantidad, precio, fecha) ==
    [dicc |-> TRUE, id_producto |-> id, nombre |-> nombre,
     cantidad |-> cantidad, precio |-> precio, fecha_creacion |-> fecha]

RegA == Reg(JS(<<"a">>), JS(<<"B">>), JE(1), JD(1), JsonDump(Marca(1)))
RegA2 == Reg(JS(<<"A", " ">>), JS(<<"a", "b">>), JE(0), JE(1), JFalta)
RegB == Reg(JS(<<"b">>), JS(<<"B">>), JE(0), JD(0), JsonDump(Marca(1)))
RegIdBlanco ==
    Reg(JS(<<" ">>), JS(<<"B">>), JE(0), JD(0), JsonDump(Marca(1)))
RegNombreBlanco ==
    Reg(JS(<<"a">>), JS(<<>>), JE(0), JD(0), JsonDump(Marca(1)))
RegCantidadNegativa ==
    Reg(JS(<<"a">>), JS(<<"B">>), JE(-1), JD(0), JsonDump(Marca(1)))
RegCantidadDecimal ==
    Reg(JS(<<"a">>), JS(<<"B">>), JD(1), JD(0), JsonDump(Marca(1)))
RegPrecioNegativo ==
    Reg(JS(<<"a">>), JS(<<"B">>), JE(0), JD(-1), JsonDump(Marca(1)))
RegSinCampo ==
    Reg(JS(<<"a">>), JS(<<"B">>), JE(0), JFalta, JsonDump(Marca(1)))
RegNoDicc == [Reg(JFalta, JFalta, JFalta, JFalta, JFalta) EXCEPT !.dicc = FALSE]

ArchivosEntrada ==
    {ArchivoAusente, ArchivoIlegible, ArchivoNoObjeto, ArchivoNoLista,
     ArchivoLista(<<>>),
     ArchivoLista(<<RegA, RegIdBlanco, RegB>>),
     ArchivoLista(<<RegNombreBlanco, RegCantidadNegativa, RegB,
                    RegCantidadDecimal>>),
     ArchivoLista(<<RegB, RegPrecioNegativo, RegSinCampo, RegA2>>),
     ArchivoLista(<<RegA, RegA2>>),
     ArchivoLista(<<RegB, RegNoDicc, RegA>>)}

Vacia == [productos |-> <<>>, ids |-> {}, indice |-> <<>>, ok |-> TRUE]

(***************************************************************************)
(* Inventario: add, remove, update                                         *)
(***************************************************************************)
\* mutant: the existence check is missing, the product is stored again
agregar_producto_sin_comprobar(p) ==
    /\ productos' = DictSet(productos, p)
    /\ ids_productos' = ids_productos \cup {p.id_producto}
    /\ indice_nombres' = _actualizar_indice_nombres(indice_nombres, p)
    /\ ult' = Llamada("agregar", p.id_producto, Falta, p.nombre,
                      p.id_producto \notin ids_productos)

\* Inventario.agregar_producto
agregar_producto(p) ==
    IF p.id_producto \in ids_productos
    THEN /\ UNCHANGED coleccion
         /\ ult' = Llamada("agregar", p.id_producto, Falta, p.nombre, FALSE)
    ELSE /\ productos' = DictSet(productos, p)
         /\ ids_productos' = ids_productos \cup {p.id_producto}
         /\ indice_nombres' = _actualizar_indice_nombres(indice_nombres, p)
         /\ ult' = Llamada("agregar", p.id_producto, Falta, p.nombre, TRUE)

\* mutant: the name index is not updated on removal
eliminar_producto_sin_indice(id_crudo) ==
    LET id_producto == strip(upper(id_crudo))
    IN IF id_producto \notin ids_productos
       THEN /\ UNCHANGED coleccion
            /\ ult' = Llamada("eliminar", id_crudo, Falta, <<>>, FALSE)
       ELSE /\ productos' = DictDel(productos, id_producto)
            /\ ids_productos' = ids_productos \ {id_producto}
            /\ UNCHANGED indice_nombres
            /\ ult' = Llamada("eliminar", id_crudo, Falta, <<>>, TRUE)

\* Inventario.eliminar_producto
eliminar_producto(id_crudo) ==
    LET id_producto == strip(upper(id_crudo))
    IN IF id_producto \notin ids_productos
       THEN /\ UNCHANGED coleccion
            /\ ult' = Llamada("eliminar", id_crudo, Falta, <<>>, FALSE)
       ELSE LET producto == productos[Pos(productos, id_producto)]
            IN /\ productos' = DictDel(productos, id_producto)
               /\ ids_productos' = ids_productos \ {id_producto}
               /\ indice_nombres' =
                      _remover_de_indice_nombres(indice_nombres, producto)
               /\ ult' = Llamada("eliminar", id_crudo, Falta, <<>>, TRUE)

\* Inventario.actualizar_cantidad
actualizar_cantidad(id_crudo, nueva_cantidad) ==
    LET id_producto == strip(upper(id_crudo))
        i == Pos(productos, id_producto)
    IN IF i = 0
       THEN /\ UNCHANGED coleccion
            /\ ult' = Llamada("cantidad", id_crudo, nueva_cantidad, <<>>, FALSE)
       ELSE IF _validar_cantidad_ok(nueva_cantidad)
       THEN /\ productos' = [productos EXCEPT
                                ![i].cantidad = _validar_cantidad(nueva_cantidad)]
            /\ UNCHANGED <<ids_productos, indice_nombres>>
            /\ ult' = Llamada("cantidad", id_crudo, nueva_cantidad, <<>>, TRUE)
       ELSE /\ UNCHANGED coleccion
            /\ ult' = Llamada("cantidad", id_crudo, nueva_cantidad, <<>>, FALSE)

\* Inventario.actualizar_precio
actualizar_precio(id_crudo, nuevo_precio) ==
    LET id_producto == strip(upper(id_crudo))
        i == Pos(productos, id_producto)
    IN IF i = 0
       THEN /\ UNCHANGED coleccion
            /\ ult' = Llamada("precio", id_crudo, nuevo_precio, <<>>, FALSE)
       ELSE IF _validar_precio_ok(nuevo_precio)
       THEN /\ productos' = [productos EXCEPT
                                ![i].precio = _validar_precio(nuevo_precio)]
            /\ UNCHANGED <<ids_productos, indice_nombres>>
            /\ ult' = Llamada("precio", id_crudo, nuevo_precio, <<>>, TRUE)
       ELSE /\ UNCHANGED coleccion
            /\ ult' = Llamada("precio", id_crudo, nuevo_precio, <<>>, FALSE)

\* Producto.nombre (setter) on the object the store holds under id_crudo
\* (the object passed to agregar_producto, or the one obtener_producto_por_id
\* returns): the name of that object changes, the store is not told
nombre_setter(id_crudo, valor) ==
    LET i == Pos(productos, strip(upper(id_crudo)))
    IN IF _validar_nombre_ok(valor)
       THEN /\ productos' = [productos EXCEPT
                                ![i].nombre = _validar_nombre(valor)]
            /\ UNCHANGED <<ids_productos, indice_nombres>>
            /\ ult' = Llamada("renombrar", id_crudo, Falta, valor.s, TRUE)
       ELSE /\ UNCHANGED coleccion
            /\ ult' = Llamada("renombrar", id_crudo, Falta, valor.s, FALSE)

(***************************************************************************)
(* Inventario: search and statistics                                       *)
(***************************************************************************)
\* the ids of the buckets whose key contains the query, in dict order
RECURSIVE IdsParciales(_, _)
IdsParciales(ix, nombre_busqueda) ==
    IF ix = <<>> THEN <<>>
    ELSE (IF Contiene(Head(ix).k, nombre_busqueda) THEN Head(ix).ids ELSE <<>>)
            \o IdsParciales(Tail(ix), nombre_busqueda)

\* mutant: the partial search also runs after an exact match
IdsEncontrados_siempre_parcial(ix, nombre_busqueda) ==
    (IF PosK(ix, nombre_busqueda) # 0
     THEN ix[PosK(ix, nombre_busqueda)].ids ELSE <<>>)
        \o IdsParciales(ix, nombre_busqueda)

\* the ids buscar_por_nombre follows: the exact bucket, else the partial ones
IdsEncontrados(ix, nombre_busqueda) ==
    LET exactos == IF PosK(ix, nombre_busqueda) # 0
                   THEN ix[PosK(ix, nombre_busqueda)].ids
                   ELSE <<>>
    IN IF exactos # <<>> THEN exactos ELSE IdsParciales(ix, nombre_busqueda)

\* Inventario.buscar_por_nombre: self.__productos[id] raises KeyError for an
\* id that is not a key of productos (ok = FALSE, nothing returned)
buscar_por_nombre(nombre) ==
    LET nombre_busqueda == _normalizar_nombre(nombre)
        encontrados == IdsEncontrados(indice_nombres, nombre_busqueda)
    IN IF \A j \in 1..Len(encontrados) : Pos(productos, encontrados[j]) # 0
       THEN [ok |-> TRUE,
             res |-> [j \in 1..Len(encontrados) |->
                        productos[Pos(productos, encontrados[j])]]]
       ELSE [ok |-> FALSE, res |-> <<>>]

\* sum(...) from the int 0
RECURSIVE Sumar(_)
Sumar(l) == IF l = <<>> THEN PyInt(0)
            ELSE Suma(Sumar(SubSeq(l, 1, Len(l) - 1)), l[Len(l)])

\* max(productos, key=precio): the first product no later one is `>` than
RECURSIVE MaxPrecioDe(_)
MaxPrecioDe(l) ==
    IF Len(l) = 1 THEN l[1]
    ELSE LET m == MaxPrecioDe(SubSeq(l, 1, Len(l) - 1))
         IN IF Mayor(l[Len(l)].precio, m.precio) THEN l[Len(l)] ELSE m

\* min(productos, key=precio)
RECURSIVE MinPrecioDe(_)
MinPrecioDe(l) ==
    IF Len(l) = 1 THEN l[1]
    ELSE LET m == MinPrecioDe(SubSeq(l, 1, Len(l) - 1))
         IN IF Menor(l[Len(l)].precio, m.precio) THEN l[Len(l)] ELSE m

\* Inventario.obtener_estadisticas
obtener_estadisticas ==
    IF productos = <<>> THEN SinEstadisticas
    ELSE [total_productos |-> Len(productos),
          valor_total_inventario |->
              Sumar([i \in 1..Len(productos) |->
                       calcular_valor_total(productos[i])]),
          producto_mas_caro |-> Alguno(MaxPrecioDe(productos)),
          producto_mas_barato |-> Alguno(MinPrecioDe(productos)),
          stock_total |->
              Sumar([i \in 1..Len(productos) |-> productos[i].cantidad])]

(***************************************************************************)
(* Inventario: save and load                                               *)
(***************************************************************************)
\* mutant: a record that fails validation ends the load
RECURSIVE CargarRegistros_aborta(_, _, _)
CargarRegistros_aborta(col, registros, ahoras) ==
    IF registros = <<>> THEN col
    ELSE LET producto_data == json_load(Head(registros))
         IN IF from_dict_ok(producto_data)
            THEN LET producto == from_dict(producto_data, Head(ahoras))
                 IN CargarRegistros_aborta(
                        [productos |-> DictSet(col.productos, producto),
                         ids |-> col.ids \cup {producto.id_producto},
                         indice |-> _actualizar_indice_nombres(col.indice,
                                                              producto),
                         ok |-> TRUE],
                        Tail(registros), Tail(ahoras))
            ELSE [col EXCEPT !.ok = FALSE]

\* the loop of cargar_inventario over the records: a record from_dict
\* rejects is skipped; for a record that is no dict the handler's own
\* producto_data.get raises, which ends the loop with what was loaded so far
RECURSIVE CargarRegistros(_, _, _)
CargarRegistros(col, registros, ahoras) ==
    IF registros = <<>> THEN col
    ELSE LET producto_data == json_load(Head(registros))
         IN IF from_dict_ok(producto_data)
            THEN LET producto == from_dict(producto_data, Head(ahoras))
                 IN CargarRegistros(
                        [productos |-> DictSet(col.productos, producto),
                         ids |-> col.ids \cup {producto.id_producto},
                         indice |-> _actualizar_indice_nombres(col.indice,
                                                              producto),
                         ok |-> TRUE],
                        Tail(registros), Tail(ahoras))
            ELSE IF producto_data.dicc
            THEN CargarRegistros(col, Tail(registros), Tail(ahoras))
            ELSE [col EXCEPT !.ok = FALSE]

\* mutant: the collections are not cleared before the records are loaded
CargarEn_sin_limpiar(col, ahoras) ==
    CASE archivo.estado = "ausente" -> [col EXCEPT !.ok = TRUE]
      [] archivo.estado = "ilegible" -> [col EXCEPT !.ok = FALSE]
      [] archivo.estado \in {"noobjeto", "nolista"} -> [col EXCEPT !.ok = FALSE]
      [] OTHER -> CargarRegistros([col EXCEPT !.ok = TRUE],
                                  archivo.registros, ahoras)

\* cargar_inventario on the collections col: their value and the returned
\* bool afterwards
CargarEn(col, ahoras) ==
    CASE archivo.estado = "ausente" -> [col EXCEPT !.ok = TRUE]
      [] archivo.estado = "ilegible" -> [col EXCEPT !.ok = FALSE]
      [] archivo.estado \in {"noobjeto", "nolista"} -> [Vacia EXCEPT !.ok = FALSE]
      [] OTHER -> CargarRegistros(Vacia, archivo.registros, ahoras)

\* Inventario.cargar_inventario
cargar_inventario(ahoras) ==
    LET r == CargarEn([productos |-> productos, ids |-> ids_productos,
                       indice |-> indice_nombres, ok |-> TRUE], ahoras)
    IN /\ productos' = r.productos
       /\ ids_productos' = r.ids
       /\ indice_nombres' = r.indice
       /\ ult' = Llamada("cargar", <<>>, Falta, <<>>, r.ok)

\* Inventario.__init__: empty collections, then cargar_inventario
Inventario(ahoras) ==
    LET r == CargarEn(Vacia, ahoras)
    IN /\ productos' = r.productos
       /\ ids_productos' = r.ids
       /\ indice_nombres' = r.indice
       /\ ult' = Llamada("nuevo", <<>>, Falta, <<>>, r.ok)

\* Inventario.guardar_inventario: exito tells whether makedirs, open and
\* json.dump all succeed; a failure leaves the file as it was (open failed)
\* or cut short (the write failed)
guardar_inventario(exito, cortado) ==
    /\ UNCHANGED coleccion
    /\ ult' = Llamada("guardar", <<>>, Falta, <<>>, exito)
    /\ IF exito
       THEN /\ archivo' = ArchivoLista([i \in 1..Len(productos) |->
                                          json_dump(to_dict(productos[i]))])
            /\ guardado' = [hay |-> TRUE, productos |-> productos]
       ELSE IF cortado
       THEN archivo' = ArchivoIlegible /\ guardado' = NoGuardado
       ELSE UNCHANGED <<archivo, guardado>>

\* Inventario.__contains__
contiene(ids, id_crudo) == strip(upper(id_crudo)) \in ids

\* Inventario.obtener_producto_por_id: dict.get, None when absent
obtener_producto_por_id(d, id_crudo) ==
    IF Pos(d, strip(upper(id_crudo))) = 0 THEN Ninguno
    ELSE Alguno(d[Pos(d, strip(upper(id_crudo)))])

(***************************************************************************)
(* Actions                                                                 *)
(***************************************************************************)
\* the caller builds a Producto and adds it; the parameters are the values
\* the caller may type and the readings the clock may give at construction
Agregar(nombres, cantidades, precios, relojes) ==
    \E id \in IdsEntrada, nombre \in nombres,
       cantidad \in cantidades, precio \in precios, ahora \in relojes :
        /\ ProductoValido(PyStr(id), PyStr(nombre), cantidad, precio)
        /\ agregar_producto(Producto(PyStr(id), PyStr(nombre), cantidad,
                                     precio, ahora))
        /\ UNCHANGED <<archivo, guardado>>

\* Producto.__init__ raises ValueError: nothing reaches the store
CrearInvalido ==
    \E e \in EntradasInvalidas :
        /\ ~ProductoValido(e[1], e[2], e[3], e[4])
        /\ ult' = Llamada("crear", e[1].s, e[3], e[2].s, FALSE)
        /\ UNCHANGED <<coleccion, archivo, guardado>>

Eliminar ==
    \E id \in IdsEntrada :
        /\ eliminar_producto(id)
        /\ UNCHANGED <<archivo, guardado>>

ActualizarCantidad(valores) ==
    \E id \in IdsEntrada, v \in valores :
        /\ actualizar_cantidad(id, v)
        /\ UNCHANGED <<archivo, guardado>>

ActualizarPrecio(valores) ==
    \E id \in IdsEntrada, v \in valores :
        /\ actualizar_precio(id, v)
        /\ UNCHANGED <<archivo, guardado>>

\* the caller fetches a stored product and assigns its name
Renombrar(nombres) ==
    \E id \in IdsEntrada, nombre \in nombres :
        /\ obtener_producto_por_id(productos, id).hay
        /\ nombre_setter(id, PyStr(nombre))
        /\ UNCHANGED <<archivo, guardado>>

Buscar ==
    \E q \in ConsultasEntrada :
        /\ ult' = [Llamada("buscar", q, Falta, <<>>, buscar_por_nombre(q).ok)
                      EXCEPT !.res = buscar_por_nombre(q).res]
        /\ UNCHANGED <<coleccion, archivo, guardado>>

Estadisticas ==
    /\ ult' = [Llamada("estadisticas", <<>>, Falta, <<>>, TRUE)
                  EXCEPT !.est = obtener_estadisticas]
    /\ UNCHANGED <<coleccion, archivo, guardado>>

\* the clock readings of the constructor calls of one load, one a record;
\* the reading taken for a record that has a 'fecha_creacion' is overwritten
\* by from_dict, so only the others are drawn
SinFecha == {i \in 1..Len(archivo.registros) :
                archivo.registros[i].fecha_creacion = JFalta}

Relojes(relojes) ==
    {[i \in 1..Len(archivo.registros) |-> IF i \in SinFecha THEN g[i] ELSE 1] :
        g \in [SinFecha -> relojes]}

Guardar ==
    \E exito \in BOOLEAN, cortado \in BOOLEAN :
        guardar_inventario(exito, cortado)

Cargar(relojes) ==
    \E ahoras \in Relojes(relojes) :
        /\ cargar_inventario(ahoras)
        /\ UNCHANGED <<archivo, guardado>>

\* the program is started again on the same path
Nuevo(relojes) ==
    \E ahoras \in Relojes(relojes) :
        /\ Inventario(ahoras)
        /\ UNCHANGED <<archivo, guardado>>

\* the file is replaced or deleted from outside the program
EditarArchivo ==
    \E f \in ArchivosEntrada :
        /\ archivo' = f
        /\ guardado' = NoGuardado
        /\ ult' = Llamada("editar", <<>>, Falta, <<>>, TRUE)
        /\ UNCHANGED coleccion

\* Inventario.__init__ before its call of cargar_inventario, no file present
Init ==
    /\ productos = <<>>
    /\ ids_productos = {}
    /\ indice_nombres = <<>>
    /\ archivo = ArchivoAusente
    /\ guardado = NoGuardado
    /\ ult = Llamada("init", <<>>, Falta, <<>>, TRUE)

NextCRUD ==
    \/ Agregar(NombresEntrada, CantidadesValidas, PreciosValidos, {1})
    \/ CrearInvalido
    \/ Eliminar
    \/ ActualizarCantidad(CantidadesEntrada)
    \/ ActualizarPrecio(PreciosEntrada)
    \/ Buscar
    \/ Estadisticas

SpecCRUD == Init /\ [][NextCRUD]_vars

\* edit, then save, then start the program again on the saved file
NextIdaVuelta ==
    \/ ~guardado.hay /\ Agregar(NombresUnicode, {PyInt(0), PyInt(MaxCantidad)},
                                {NaN, PyInt(MaxPrecio)}, {1, MaxFecha})
    \/ ~guardado.hay /\ Eliminar
    \/ ~guardado.hay /\ ActualizarCantidad({PyInt(0), PyInt(MaxCantidad)})
    \/ ~guardado.hay /\ ActualizarPrecio({NaN, PyInt(MaxPrecio)})
    \/ ~guardado.hay /\ Guardar
    \/ guardado.hay /\ Nuevo({1, MaxFecha})

SpecIdaVuelta == Init /\ [][NextIdaVuelta]_vars

\* the store, its file and what happens to the file outside the program
NextES ==
    \/ Agregar(NombresEntrada, {PyInt(0)}, {PyFloat(0)}, {1})
    \/ Eliminar
    \/ ActualizarCantidad({PyInt(0), PyInt(-1)})
    \/ ActualizarPrecio({PyFloat(-1)})
    \/ Guardar
    \/ Cargar(Fechas)
    \/ Nuevo(Fechas)
    \/ EditarArchivo

SpecES == Init /\ [][NextES]_vars

\* the store, its file and the searches of the console
NextBuscar ==
    \/ Agregar(NombresEntrada, {PyInt(0)}, {PyFloat(0)}, {1})
    \/ Eliminar
    \/ ActualizarCantidad({PyInt(0), PyInt(-1)})
    \/ ActualizarPrecio({PyFloat(-1)})
    \/ Guardar
    \/ Cargar(Fechas)
    \/ EditarArchivo
    \/ Buscar

SpecBuscar == Init /\ [][NextBuscar]_vars

\* add, rename, remove and search
NextRenombrar ==
    \/ Agregar(NombresEntrada, {PyInt(0)}, {PyFloat(0)}, {1})
    \/ Renombrar(NombresEntrada \cup {<<" ">>})
    \/ Eliminar
    \/ Buscar

SpecRenombrar == Init /\ [][NextRenombrar]_vars

(***************************************************************************)
(* Read-only views used by the properties                                  *)
(***************************************************************************)
\* the places <<bucket, position>> of indice_nombres that hold an id
Lugares(ix, id) ==
    UNION {{<<b, j>> : j \in {h \in 1..Len(ix[b].ids) : ix[b].ids[h] = id}} :
             b \in 1..Len(ix)}

EnCubeta(ix, k, id) ==
    \E b \in 1..Len(ix) : ix[b].k = k /\ EnLista(ix[b].ids, id)

Elementos(l) == {l[i] : i \in 1..Len(l)}

(***************************************************************************)
(* C1: after any sequence of add, remove, updateQuantity and updatePrice   *)
(* from an empty store, ids equals the key set of products, every id of    *)
(* products is in exactly one bucket of the name index, that bucket is the *)
(* one keyed by the product's normalized name, and no bucket is empty.     *)
(***************************************************************************)
C1_IndicesConsistentes ==
    /\ ids_productos = Claves(productos)
    /\ \A i \in 1..Len(productos) :
          /\ Cardinality(Lugares(indice_nombres, productos[i].id_producto)) = 1
          /\ EnCubeta(indice_nombres,
                      strip(lower(productos[i].nombre)),
                      productos[i].id_producto)
    /\ \A b \in 1..Len(indice_nombres) : indice_nombres[b].ids # <<>>

\* a removal has emptied a bucket while another product stays indexed
C1_Testigo ==
    /\ ult.op = "eliminar" /\ ult.ok
    /\ Len(productos) = 1 /\ Len(indice_nombres) = 1

(***************************************************************************)
(* C2: add of a product whose id is already present returns failure and    *)
(* leaves the store unchanged: same count, the product stored under that   *)
(* id retained, ids and name index unchanged, also when the names differ.  *)
(***************************************************************************)
C2_AgregarDuplicado ==
    [][(ult'.op = "agregar" /\ ult'.id \in ids_productos)
        => /\ ult'.ok = FALSE
           /\ Len(productos') = Len(productos)
           /\ obtener_producto_por_id(productos', ult'.id)
                = obtener_producto_por_id(productos, ult'.id)
           /\ productos' = productos
           /\ ids_productos' = ids_productos
           /\ indice_nombres' = indice_nombres]_vars

\* a rejected add whose product carries another name than the stored one
C2_Testigo ==
    /\ ult.op = "agregar" /\ ~ult.ok
    /\ obtener_producto_por_id(productos, ult.id).hay
    /\ obtener_producto_por_id(productos, ult.id).p.nombre
         # ult.nombre

(***************************************************************************)
(* C3: remove of a present id succeeds, decrements count by one, and       *)
(* afterwards contains is false, findById is not-found, the id is in no    *)
(* bucket and every other product is unchanged; remove of an absent id     *)
(* fails and leaves products, ids and name index unchanged.                *)
(***************************************************************************)
C3_Eliminar ==
    [][ult'.op = "eliminar"
        => IF contiene(ids_productos, ult'.id)
           THEN /\ ult'.ok
                /\ Len(productos') = Len(productos) - 1
                /\ ~contiene(ids_productos', ult'.id)
                /\ ~obtener_producto_por_id(productos', ult'.id).hay
                /\ Lugares(indice_nombres', strip(upper(ult'.id))) = {}
                /\ \A i \in 1..Len(productos) :
                      productos[i].id_producto # strip(upper(ult'.id))
                        => productos[i] \in Elementos(productos')
           ELSE /\ ~ult'.ok
                /\ productos' = productos
                /\ ids_productos' = ids_productos
                /\ indice_nombres' = indice_nombres]_vars

\* a successful removal that leaves another product in the store
C3_Testigo == ult.op = "eliminar" /\ ult.ok /\ Len(productos) = 1

(***************************************************************************)
(* C4: updateQuantity and updatePrice fail when the id is unknown or the   *)
(* new value is negative or a non-integer quantity; on failure products,   *)
(* ids and name index are unchanged; on success only the targeted field    *)
(* of the targeted product changes.                                        *)
(***************************************************************************)
ValorInvalido(op, v) ==
    \/ v.t \in {"int", "float"} /\ v.n < 0
    \/ op = "cantidad" /\ v.t # "int"

SoloCambia(op, p, q) ==
    IF op = "cantidad" THEN q = [p EXCEPT !.cantidad = q.cantidad]
    ELSE q = [p EXCEPT !.precio = q.precio]

C4_Actualizar ==
    [][ult'.op \in {"cantidad", "precio"}
        => LET i == Pos(productos, strip(upper(ult'.id)))
           IN /\ (i = 0 \/ ValorInvalido(ult'.op, ult'.val)) => ~ult'.ok
              /\ ~ult'.ok => /\ productos' = productos
                             /\ ids_productos' = ids_productos
                             /\ indice_nombres' = indice_nombres
              /\ ult'.ok => /\ ids_productos' = ids_productos
                            /\ indice_nombres' = indice_nombres
                            /\ Len(productos') = Len(productos)
                            /\ \A j \in 1..Len(productos) :
                                  IF j = i
                                  THEN SoloCambia(ult'.op, productos[j],
                                                  productos'[j])
                                  ELSE productos'[j] = productos[j]]_vars

\* an update of a stored product rejected for its value
C4_Testigo ==
    /\ ult.op = "cantidad" /\ ~ult.ok
    /\ contiene(ids_productos, ult.id)
    /\ ult.val.t = "int" /\ ult.val.n < 0

(***************************************************************************)
(* C9: in a store reached by add/remove/update, findByName(q) returns,     *)
(* when a bucket keyed exactly by the normalized q exists, the products of *)
(* that bucket in bucket order and nothing else; otherwise exactly the     *)
(* products of the buckets whose key contains q, none when there is none.  *)
(***************************************************************************)
ProductoDe(id) == productos[Pos(productos, id)]

C9_BuscarPorNombre ==
    ult.op = "buscar"
      => LET q == strip(lower(ult.id))
             exactas == {b \in 1..Len(indice_nombres) : indice_nombres[b].k = q}
             parciales == {b \in 1..Len(indice_nombres) :
                             Contiene(indice_nombres[b].k, q)}
         IN /\ ult.ok
            /\ IF exactas # {}
               THEN \E b \in exactas :
                      /\ Len(ult.res) = Len(indice_nombres[b].ids)
                      /\ \A j \in 1..Len(ult.res) :
                            ult.res[j] = ProductoDe(indice_nombres[b].ids[j])
               ELSE /\ Elementos(ult.res) =
                         {ProductoDe(id) :
                            id \in UNION {Elementos(indice_nombres[b].ids) :
                                            b \in parciales}}
                    /\ Len(ult.res) = Cardinality(Elementos(ult.res))

\* an exact match while another stored name only contains the query
C9_Testigo ==
    /\ ult.op = "buscar" /\ Len(ult.res) = 1 /\ Len(productos) = 2
    /\ \E b \in 1..Len(indice_nombres) :
          indice_nombres[b].k = strip(lower(ult.id))
    /\ \A i \in 1..Len(productos) :
          Contiene(strip(lower(productos[i].nombre)), strip(lower(ult.id)))

(***************************************************************************)
(* C10: statistics() of an empty store is count 0, total value 0, total    *)
(* stock 0 and no most-expensive/cheapest product; of a non-empty store it *)
(* is the number of products, the sum of quantities, the sum of quantity x *)
(* price, a stored product whose price is >= every stored price and a      *)
(* stored product whose price is <= every stored price.                    *)
(***************************************************************************)
MayorIgual(a, b) == a.t # "nan" /\ b.t # "nan" /\ a.n >= b.n

RECURSIVE SumaDe(_, _)
SumaDe(f, S) ==
    IF S = {} THEN PyInt(0)
    ELSE LET x == CHOOSE y \in S : TRUE IN Suma(f[x], SumaDe(f, S \ {x}))

C10_Cuerpo(e) ==
    IF productos = <<>>
    THEN /\ e.total_productos = 0
         /\ e.valor_total_inventario.t # "nan" /\ e.valor_total_inventario.n = 0
         /\ e.stock_total.t # "nan" /\ e.stock_total.n = 0
         /\ ~e.producto_mas_caro.hay /\ ~e.producto_mas_barato.hay
    ELSE /\ e.total_productos = Cardinality(Claves(productos))
         /\ e.stock_total =
              SumaDe([i \in 1..Len(productos) |-> productos[i].cantidad],
                     1..Len(productos))
         /\ e.valor_total_inventario =
              SumaDe([i \in 1..Len(productos) |->
                        Mult(productos[i].cantidad, productos[i].precio)],
                     1..Len(productos))
         /\ e.producto_mas_caro.hay /\ e.producto_mas_barato.hay
         /\ e.producto_mas_caro.p \in Elementos(productos)
         /\ e.producto_mas_barato.p \in Elementos(productos)
         /\ \A i \in 1..Len(productos) :
               /\ MayorIgual(e.producto_mas_caro.p.precio, productos[i].precio)
               /\ MayorIgual(productos[i].precio, e.producto_mas_barato.p.precio)

C10_Estadisticas == ult.op = "estadisticas" => C10_Cuerpo(ult.est)

\* the claim restricted to stores that hold no nan price
C10_SinNaN ==
    (ult.op = "estadisticas"
        /\ \A i \in 1..Len(productos) : productos[i].precio.t # "nan")
      => C10_Cuerpo(ult.est)

\* statistics of two products of different prices
C10_Testigo ==
    /\ ult.op = "estadisticas" /\ Len(productos) = 2
    /\ ult.est.producto_mas_caro.p # ult.est.producto_mas_barato.p
    /\ ult.est.valor_total_inventario.n > 0

(***************************************************************************)
(* C5: round trip.  For a store reached by add/remove/update, a successful *)
(* save followed by the construction of a fresh store on the same path     *)
(* gives a store whose set of products (id, name, quantity, price,         *)
(* createdAt) equals the saved one.                                        *)
(***************************************************************************)
C5_IdaYVuelta ==
    (ult.op = "nuevo" /\ guardado.hay)
      => Elementos(productos) = Elementos(guardado.productos)

\* the round trip of the stores none of whose names holds U+0307
C5_SinPunto ==
    (ult.op = "nuevo" /\ guardado.hay
        /\ \A i \in 1..Len(guardado.productos) :
              ~EnLista(guardado.productos[i].nombre, "dot"))
      => Elementos(productos) = Elementos(guardado.productos)

C5_Testigo ==
    ult.op = "nuevo" /\ guardado.hay /\ Len(guardado.productos) = 2

(***************************************************************************)
(* C6: load() on a store whose file does not exist returns success and     *)
(* the store is empty afterwards (count 0, no id contained), whatever it   *)
(* held in memory before.                                                  *)
(***************************************************************************)
C6_CargarSinArchivo ==
    (ult.op = "cargar" /\ archivo.estado = "ausente")
      => /\ ult.ok
         /\ Len(productos) = 0
         /\ \A id \in IdsEntrada : ~contiene(ids_productos, id)

(***************************************************************************)
(* C7: load() replaces: after a successful load of an existing file the    *)
(* store holds exactly the products built from the file's valid records,   *)
(* and no product that was in memory before and is absent from the file    *)
(* remains in products, ids or the name index.                             *)
(***************************************************************************)
\* the records of the file Producto.from_dict accepts
Validos(f) ==
    {i \in 1..Len(f.registros) : from_dict_ok(json_load(f.registros[i]))}

IdDe(r) == upper(strip(r.id_producto.s))

\* the last valid record of each id
Vigentes(f) ==
    {i \in Validos(f) :
        \A h \in Validos(f) :
            IdDe(f.registros[h]) = IdDe(f.registros[i]) => h <= i}

C7_CargarReemplaza ==
    [][(ult'.op = "cargar" /\ ult'.ok /\ archivo.estado # "ausente")
        => /\ Elementos(productos') \subseteq
                {from_dict(json_load(archivo.registros[i]), ahora) :
                    i \in Vigentes(archivo), ahora \in Fechas}
           /\ Claves(productos') =
                {IdDe(archivo.registros[i]) : i \in Validos(archivo)}
           /\ Len(productos') = Cardinality(Claves(productos'))
           /\ \A i \in 1..Len(productos) :
                 productos[i].id_producto \notin
                     {IdDe(archivo.registros[h]) : h \in Validos(archivo)}
                   => /\ productos[i].id_producto \notin Claves(productos')
                      /\ productos[i].id_producto \notin ids_productos'
                      /\ Lugares(indice_nombres', productos[i].id_producto)
                           = {}]_vars

\* a load that dropped a product the file does not hold
C7_Testigo ==
    /\ ult.op = "cargar" /\ ult.ok /\ archivo.estado = "lista"
    /\ Len(productos) = 1
    /\ ~contiene(ids_productos, <<"a">>)
    /\ Len(archivo.registros) = 4

(***************************************************************************)
(* C8: during load a record that fails validation (blank id or name,       *)
(* negative or non-integer quantity, negative price, missing field) is     *)
(* skipped without aborting: every valid record before and after it is in  *)
(* products, ids and the name index, the bad record adds nothing to any of *)
(* the three, and load returns success.                                    *)
(***************************************************************************)
EsBlanco(x) == x.j = "string" /\ \A i \in 1..Len(x.s) : x.s[i] = " "

RegistroMalo(r) ==
    \/ EsBlanco(r.id_producto) \/ EsBlanco(r.nombre)
    \/ r.cantidad.j \in {"entero", "decimal"} /\ r.cantidad.n < 0
    \/ r.cantidad.j = "decimal"
    \/ r.precio.j \in {"entero", "decimal"} /\ r.precio.n < 0
    \/ JFalta \in {r.id_producto, r.nombre, r.cantidad, r.precio}

Buenos(f) == {i \in 1..Len(f.registros) : ~RegistroMalo(f.registros[i])}

ClaveDe(r) == strip(lower(title(strip(r.nombre.s))))

C8_RegistroOmitido ==
    (/\ ult.op = "cargar" /\ archivo.estado = "lista"
     /\ \A i \in 1..Len(archivo.registros) : archivo.registros[i].dicc)
      => /\ ult.ok
         /\ \A i \in Buenos(archivo) :
               /\ IdDe(archivo.registros[i]) \in Claves(productos)
               /\ IdDe(archivo.registros[i]) \in ids_productos
               /\ EnCubeta(indice_nombres, ClaveDe(archivo.registros[i]),
                           IdDe(archivo.registros[i]))
         /\ Claves(productos) \cup ids_productos \subseteq
                {IdDe(archivo.registros[i]) : i \in Buenos(archivo)}
         /\ \A b \in 1..Len(indice_nombres) :
               \A id \in Elementos(indice_nombres[b].ids) :
                 \E i \in Buenos(archivo) :
                    /\ IdDe(archivo.registros[i]) = id
                    /\ ClaveDe(archivo.registros[i]) = indice_nombres[b].k

\* a load that skipped bad records lying between and after valid ones
C8_Testigo ==
    /\ ult.op = "cargar" /\ ult.ok /\ archivo.estado = "lista"
    /\ Buenos(archivo) = {1, 4}
    /\ Len(productos) = 2

(***************************************************************************)
(* C11: a name change of a product that is in the store, through the       *)
(* product's validated name mutator, keeps the name index consistent with  *)
(* products: afterwards the product's id is in the bucket keyed by its new *)
(* normalized name and in no other bucket, findByName of the new name      *)
(* returns it, and a later remove(id) leaves the id in no bucket.          *)
(***************************************************************************)
C11_Renombrar ==
    /\ (ult.op = "renombrar" /\ ult.ok)
         => LET p == obtener_producto_por_id(productos, ult.id).p
            IN /\ EnCubeta(indice_nombres, strip(lower(p.nombre)),
                           p.id_producto)
               /\ Cardinality(Lugares(indice_nombres, p.id_producto)) = 1
               /\ buscar_por_nombre(ult.nombre).ok
               /\ p \in Elementos(buscar_por_nombre(ult.nombre).res)
    /\ (ult.op = "eliminar" /\ ult.ok)
         => Lugares(indice_nombres, strip(upper(ult.id))) = {}

(***************************************************************************)
(* C12: in every reachable state (any sequence of add, remove,             *)
(* updateQuantity and updatePrice with valid or invalid values, and load   *)
(* from a file with arbitrary records) every product in the store has a    *)
(* non-blank id, a non-blank name, an integer quantity >= 0 and a price    *)
(* >= 0; an attempted mutation with a violating value fails and leaves the *)
(* product's fields as they were.                                          *)
(***************************************************************************)
NoNegativo(v) == v.t \in {"int", "float"} /\ v.n >= 0

CamposValidos(p) ==
    /\ strip(p.id_producto) # <<>>
    /\ strip(p.nombre) # <<>>
    /\ p.cantidad.t = "int" /\ p.cantidad.n >= 0
    /\ NoNegativo(p.precio)

ValorViolador(op, v) ==
    IF op = "cantidad" THEN ~(v.t = "int" /\ v.n >= 0) ELSE ~NoNegativo(v)

C12_Cuerpo(excluidos) ==
    /\ \A i \in 1..Len(productos') :
          productos'[i].precio \notin excluidos
            => CamposValidos(productos'[i])
    /\ (ult'.op \in {"cantidad", "precio"}
          /\ ult'.val \notin excluidos
          /\ ValorViolador(ult'.op, ult'.val))
         => ~ult'.ok /\ productos' = productos

C12_CamposValidos == [][C12_Cuerpo({})]_vars

\* the claim for every price but nan
C12_SinNaN == [][C12_Cuerpo({NaN})]_vars

(***************************************************************************)
(* C13: save() and load() complete or fail atomically: whenever save()     *)
(* (I/O error) or load() (unreadable file, unparsable text, or a parsed    *)
(* document whose container is malformed: not an object, or with a         *)
(* non-list product field) reports failure, it does so without raising and *)
(* products, ids and the name index are the same as before the call.       *)
(***************************************************************************)
C13_FalloAtomico ==
    [][(ult'.op \in {"guardar", "cargar"} /\ ~ult'.ok)
        => /\ productos' = productos
           /\ ids_productos' = ids_productos
           /\ indice_nombres' = indice_nombres]_vars

\* the failures met before the collections are cleared: save, and load of a
\* file that cannot be opened or parsed
C13_FalloTemprano ==
    [][(\/ ult'.op = "guardar" /\ ~ult'.ok
        \/ ult'.op = "cargar" /\ ~ult'.ok /\ archivo.estado = "ilegible")
        => /\ productos' = productos
           /\ ids_productos' = ids_productos
           /\ indice_nombres' = indice_nombres]_vars

(***************************************************************************)
(* C14: after load() of a file holding any list of valid product records,  *)
(* including two or more records that normalize to the same id but carry   *)
(* different names, ids equals the key set of products, count() equals the *)
(* number of distinct ids, and every id in products appears in exactly one *)
(* bucket of the name index, the one keyed by the current normalized name  *)
(* of the product stored under that id.                                    *)
(***************************************************************************)
TodosValidos(f) ==
    f.estado = "lista" /\ Validos(f) = 1..Len(f.registros)

C14_Cuerpo ==
    /\ ids_productos = Claves(productos)
    /\ Len(productos) =
         Cardinality({IdDe(archivo.registros[i]) :
                         i \in 1..Len(archivo.registros)})
    /\ \A i \in 1..Len(productos) :
          /\ Cardinality(Lugares(indice_nombres, productos[i].id_producto)) = 1
          /\ EnCubeta(indice_nombres, strip(lower(productos[i].nombre)),
                      productos[i].id_producto)

C14_CargarIdsRepetidos ==
    (ult.op \in {"cargar", "nuevo"} /\ TodosValidos(archivo)) => C14_Cuerpo

\* the claim for the files whose records have distinct ids
C14_SinRepetidos ==
    (/\ ult.op \in {"cargar", "nuevo"} /\ TodosValidos(archivo)
     /\ \A i, h \in 1..Len(archivo.registros) :
           IdDe(archivo.registros[i]) = IdDe(archivo.registros[h]) => i = h)
      => C14_Cuerpo

(***************************************************************************)
(* C15: in every state reachable by any sequence of add, remove,           *)
(* updateQuantity, updatePrice, save and load (from any file content),     *)
(* findByName(q) never fails with an error: every id it follows from a     *)
(* bucket of the name index is a key of products, and it returns a         *)
(* (possibly empty) collection made only of products currently in the      *)
(* store whose own normalized name equals or contains q.                   *)
(***************************************************************************)
C15_BuscarSinError ==
    ult.op = "buscar"
      => /\ ult.ok
         /\ \A j \in 1..Len(IdsEncontrados(indice_nombres,
                                            strip(lower(ult.id)))) :
               IdsEncontrados(indice_nombres, strip(lower(ult.id)))[j]
                   \in Claves(productos)
         /\ \A j \in 1..Len(ult.res) :
               /\ ult.res[j] \in Elementos(productos)
               /\ Contiene(strip(lower(ult.res[j].nombre)),
                           strip(lower(ult.id)))

====
